---- MODULE Spec2Model ----
(***************************************************************************)
(* Model of scripts/check-environment.ts: six probes run one after another *)
(* by main(), each appending Check Results to `results`, followed by the   *)
(* aggregation that prints the summary and sets the process exit status.   *)
(*                                                                         *)
(* Strings are sequences of one-character strings, so that trim(),         *)
(* startsWith(), slice(), split() and parseInt() are computed, not         *)
(* assumed.  Messages are sequences of text chunks.                        *)
(***************************************************************************)
EXTENDS Integers, Sequences, FiniteSets, TLC

VARIABLES pc, results, env, fs, created, dirIdx, browsers, out, exitCode, run, prev

vars == <<pc, results, env, fs, created, dirIdx, browsers, out, exitCode, run, prev>>

(***************************************************************************)
(* Bounds of the model                                                     *)
(***************************************************************************)
MaxPad == 1
MaxFill == 44
MaxMajor == 21
MaxResults == 4
MaxRuns == 2

(***************************************************************************)
(* Program constants                                                       *)
(***************************************************************************)
MinNodeMajor == 18
MinAnthropicLen == 50
MinGeminiLen == 30
AnthropicPrefix == <<"s", "k", "-", "a", "n", "t", "-">>
dirs == <<"./cloned-pages", "./screenshots">>
NaN == -1

Digits == <<"0", "1", "2", "3", "4", "5", "6", "7", "8", "9">>
WhiteSpace == {" ", "\t", "\n"}

(***************************************************************************)
(* String helpers                                                          *)
(***************************************************************************)
RECURSIVE Repeat(_, _)
Repeat(c, n) == IF n = 0 THEN <<>> ELSE <<c>> \o Repeat(c, n - 1)

RECURSIVE ToDigits(_)
ToDigits(n) == IF n < 10 THEN <<Digits[n + 1]>>
               ELSE ToDigits(n \div 10) \o <<Digits[(n % 10) + 1]>>

RECURSIVE trimStart(_)
trimStart(s) == IF s # <<>> /\ Head(s) \in WhiteSpace THEN trimStart(Tail(s)) ELSE s

RECURSIVE trimEnd(_)
trimEnd(s) == IF s # <<>> /\ s[Len(s)] \in WhiteSpace
              THEN trimEnd(SubSeq(s, 1, Len(s) - 1)) ELSE s

trim(s) == trimEnd(trimStart(s))

startsWith(s, p) == Len(s) >= Len(p) /\ SubSeq(s, 1, Len(p)) = p

slice1(s) == SubSeq(s, 2, Len(s))

RECURSIVE splitFirst(_, _)
splitFirst(s, sep) == IF s = <<>> \/ Head(s) = sep THEN <<>>
                      ELSE <<Head(s)>> \o splitFirst(Tail(s), sep)

DigitVal(c) == CHOOSE d \in 0..9 : Digits[d + 1] = c

IsDigit(c) == \E d \in 0..9 : Digits[d + 1] = c

RECURSIVE parseDigits(_, _)
parseDigits(s, acc) == IF s = <<>> \/ ~IsDigit(Head(s)) THEN acc
                       ELSE parseDigits(Tail(s), acc * 10 + DigitVal(Head(s)))

parseInt(s) == IF s = <<>> \/ ~IsDigit(Head(s)) THEN NaN ELSE parseDigits(s, 0)

(***************************************************************************)
(* Check Results and log()                                                 *)
(***************************************************************************)
CheckResult(n, s, m) == [name |-> n, status |-> s, message |-> m]

icon(status) == IF status = "pass" THEN "OK" ELSE IF status = "warn" THEN "WARN" ELSE "X"

Line(kind, text, n, m) == [kind |-> kind, text |-> text, n |-> n, m |-> m]

logDropFail(rs, r) == IF r.status = "fail" THEN rs ELSE Append(rs, r)

log(rs, r) == Append(rs, r)

logLine(r) == Line("result", <<icon(r.status), r.name>> \o r.message, 0, 0)

Statuses(rs) == [i \in 1..Len(rs) |-> rs[i].status]

filter(rs, s) == SelectSeq(rs, LAMBDA r : r.status = s)

(***************************************************************************)
(* Environment variables                                                   *)
(***************************************************************************)
Unset == [set |-> FALSE, val |-> <<>>]
Value(s) == [set |-> TRUE, val |-> s]

OptTrim(v) == IF v.set THEN Value(trim(v.val)) ELSE v

Falsy(k) == ~k.set \/ k.val = <<>>

(***************************************************************************)
(* Probe decisions                                                         *)
(***************************************************************************)
AnthropicResultNoLength(v) ==
    LET key == OptTrim(v) IN
    IF Falsy(key)
    THEN CheckResult("Anthropic API Key", "fail",
                     <<"Not set. Run: export ANTHROPIC_API_KEY=your_key_here">>)
    ELSE IF ~startsWith(key.val, AnthropicPrefix)
    THEN CheckResult("Anthropic API Key", "warn",
                     <<"Key format looks unusual (should start with sk-ant-)">>)
    ELSE CheckResult("Anthropic API Key", "pass", <<"Set and format looks correct">>)

AnthropicResult(v) ==
    LET key == OptTrim(v) IN
    IF Falsy(key)
    THEN CheckResult("Anthropic API Key", "fail",
                     <<"Not set. Run: export ANTHROPIC_API_KEY=your_key_here">>)
    ELSE IF ~startsWith(key.val, AnthropicPrefix)
    THEN CheckResult("Anthropic API Key", "warn",
                     <<"Key format looks unusual (should start with sk-ant-)">>)
    ELSE IF Len(key.val) < MinAnthropicLen
    THEN CheckResult("Anthropic API Key", "warn",
                     <<"Key seems too short. Make sure you copied the full key.">>)
    ELSE CheckResult("Anthropic API Key", "pass", <<"Set and format looks correct">>)

GeminiResultNoTrim(v) ==
    LET key == v IN
    IF Falsy(key)
    THEN CheckResult("Gemini API Key", "fail",
                     <<"Not set. Run: export GEMINI_API_KEY=your_key_here">>)
    ELSE IF Len(key.val) < MinGeminiLen
    THEN CheckResult("Gemini API Key", "warn",
                     <<"Key seems too short. Make sure you copied the full key.">>)
    ELSE CheckResult("Gemini API Key", "pass", <<"Set and format looks correct">>)

GeminiResult(v) ==
    LET key == OptTrim(v) IN
    IF Falsy(key)
    THEN CheckResult("Gemini API Key", "fail",
                     <<"Not set. Run: export GEMINI_API_KEY=your_key_here">>)
    ELSE IF Len(key.val) < MinGeminiLen
    THEN CheckResult("Gemini API Key", "warn",
                     <<"Key seems too short. Make sure you copied the full key.">>)
    ELSE CheckResult("Gemini API Key", "pass", <<"Set and format looks correct">>)

MajorOf(version) == parseInt(splitFirst(slice1(version), "."))

NodeResultStrict(version) ==
    LET major == MajorOf(version) IN
    IF major # NaN /\ major > MinNodeMajor
    THEN CheckResult("Node.js Version", "pass", version \o <<" (18+ required)">>)
    ELSE CheckResult("Node.js Version", "fail", version \o <<" is too old. Need Node 18+">>)

NodeResult(version) ==
    LET major == MajorOf(version) IN
    IF major # NaN /\ major >= MinNodeMajor
    THEN CheckResult("Node.js Version", "pass", version \o <<" (18+ required)">>)
    ELSE CheckResult("Node.js Version", "fail", version \o <<" is too old. Need Node 18+">>)

DirName(i) == IF i = 1 THEN "Directory ./cloned-pages" ELSE "Directory ./screenshots"

DirPass(i) == CheckResult(DirName(i), "pass", <<"Exists and writable">>)
DirFail(i) == CheckResult(DirName(i), "fail", <<"Cannot create or write to directory">>)

ErrText(fault) ==
    CASE fault = "launch" -> "browserType.launch: Executable doesn't exist"
      [] fault = "newPage" -> "browser.newPage: Target closed"
      [] fault = "goto_timeout" -> "page.goto: Timeout 10000ms exceeded"
      [] fault = "goto_dns" -> "page.goto: net::ERR_NAME_NOT_RESOLVED"
      [] fault = "close" -> "browser.close: Connection closed"

PlaywrightPass == CheckResult("Playwright Browser", "pass", <<"Chromium is installed and working">>)

PlaywrightFail(err) ==
    CheckResult("Playwright Browser", "fail",
                <<"Browser failed: ", err, ". Run: npx playwright install chromium">>)

NetworkPass == CheckResult("Network Access", "pass", <<"Can reach external websites">>)

NetworkFailVerbose(err) ==
    CheckResult("Network Access", "fail", <<"Cannot reach websites: ", err>>)

NetworkFail(err) ==
    CheckResult("Network Access", "fail",
                <<"Cannot reach websites. Check your internet connection.">>)

(***************************************************************************)
(* Filesystem: fs-extra ensureDir and access(W_OK)                         *)
(***************************************************************************)
DirStates == {"missing", "writable", "readonly", "file"}

ensureDirOkNoExist(d, cwdWritable) == d = "missing" /\ cwdWritable

ensureDirOk(d, cwdWritable) ==
    \/ d \in {"writable", "readonly"}
    \/ d = "missing" /\ cwdWritable

ensureDirState(d, cwdWritable, umaskW) ==
    IF d = "missing" /\ cwdWritable
    THEN (IF umaskW THEN "readonly" ELSE "writable")
    ELSE d

accessOk(d) == d = "writable"

(***************************************************************************)
(* main(): order of the probes and aggregation                             *)
(***************************************************************************)
AfterProbeSkipDirs(p) ==
    CASE p = "main" -> "checkNodeVersion"
      [] p = "checkNodeVersion" -> "checkAnthropicKey"
      [] p = "checkAnthropicKey" -> "checkGeminiKey"
      [] p = "checkGeminiKey" -> "checkPlaywright"
      [] p = "checkDirectories" -> "checkPlaywright"
      [] p = "checkPlaywright" -> "checkNetwork"
      [] p = "checkNetwork" -> "main_aggregate"

AfterProbe(p) ==
    CASE p = "main" -> "checkNodeVersion"
      [] p = "checkNodeVersion" -> "checkAnthropicKey"
      [] p = "checkAnthropicKey" -> "checkGeminiKey"
      [] p = "checkGeminiKey" -> "checkDirectories"
      [] p = "checkDirectories" -> "checkPlaywright"
      [] p = "checkPlaywright" -> "checkNetwork"
      [] p = "checkNetwork" -> "main_aggregate"

ExitStatusWarnFails(rs) ==
    IF Len(filter(rs, "fail")) = 0 /\ Len(filter(rs, "warn")) = 0 THEN 0 ELSE 1

ExitStatus(rs) == IF Len(filter(rs, "fail")) = 0 THEN 0 ELSE 1

SummaryAlwaysNote(rs) ==
    LET failed == filter(rs, "fail")
        warned == filter(rs, "warn")
        passed == filter(rs, "pass")
    IN IF Len(failed) = 0
       THEN <<Line("all_passed", <<"ALL CHECKS PASSED!">>, Len(passed), Len(rs)),
              Line("warnings", <<"warning(s) - review above">>, Len(warned), 0),
              Line("ready", <<"Ready to start! Type: claude">>, 0, 0)>>
       ELSE <<Line("failed", <<"CHECK(S) FAILED">>, Len(failed), 0),
              Line("fix", <<"Fix the issues above, then run: npm run check">>, 0, 0)>>

Summary(rs) ==
    LET failed == filter(rs, "fail")
        warned == filter(rs, "warn")
        passed == filter(rs, "pass")
    IN IF Len(failed) = 0
       THEN <<Line("all_passed", <<"ALL CHECKS PASSED!">>, Len(passed), Len(rs))>>
            \o (IF Len(warned) > 0
                THEN <<Line("warnings", <<"warning(s) - review above">>, Len(warned), 0)>>
                ELSE <<>>)
            \o <<Line("ready", <<"Ready to start! Type: claude">>, 0, 0)>>
       ELSE <<Line("failed", <<"CHECK(S) FAILED">>, Len(failed), 0),
              Line("fix", <<"Fix the issues above, then run: npm run check">>, 0, 0)>>

(***************************************************************************)
(* Inputs: runtime versions, key values, faults of the external engine     *)
(***************************************************************************)
MkVersion(major, minor, patch) ==
    <<"v">> \o ToDigits(major) \o <<".">> \o ToDigits(minor) \o <<".">> \o ToDigits(patch)

BigVersions == {MkVersion(M, m, 0) : M \in 0..MaxMajor, m \in {0, 18}}

SmallVersions == {MkVersion(17, 9, 0), MkVersion(18, 0, 0)}

KeyHeads == {<<>>, AnthropicPrefix,
             <<"s", "k", "-", "a", "n", "t", "_">>,
             <<"p", "k", "-", "a", "n", "t", "-">>}

Pads == {Repeat(c, n) : c \in WhiteSpace, n \in 0..MaxPad}

BigKeys == {Unset} \cup
           {Value(l \o h \o Repeat(c, n) \o t) :
               l \in Pads, h \in KeyHeads, c \in {"x", " "}, n \in 0..MaxFill, t \in Pads}

SmallAnthropicKeys == {Unset,
                       Value(AnthropicPrefix \o Repeat("x", 10)),
                       Value(AnthropicPrefix \o Repeat("x", 43))}

SmallGeminiKeys == {Unset, Value(Repeat("x", 10)), Value(Repeat("x", 40))}

PwFaults == {"none", "launch", "close"}
NetFaults == {"none", "launch", "newPage", "goto_timeout", "goto_dns", "close"}

Env(v, a, g, cw, um, pf, nf) ==
    [version |-> v, ANTHROPIC_API_KEY |-> a, GEMINI_API_KEY |-> g,
     cwdWritable |-> cw, umaskW |-> um, pwFault |-> pf, netFault |-> nf]

EnvSmall == {Env(v, a, g, cw, um, pf, nf) :
                v \in SmallVersions, a \in SmallAnthropicKeys, g \in SmallGeminiKeys,
                cw \in BOOLEAN, um \in BOOLEAN, pf \in PwFaults, nf \in NetFaults}

(***************************************************************************)
(* State machine                                                           *)
(***************************************************************************)
Fresh ==
    /\ pc = "main"
    /\ results = <<>>
    /\ dirIdx = 1
    /\ browsers = {}
    /\ out = <<>>
    /\ exitCode = 0
    /\ run = 1
    /\ prev = [statuses |-> <<>>, exitCode |-> 0]

Init ==
    /\ Fresh
    /\ env \in EnvSmall
    /\ fs \in [1..Len(dirs) -> DirStates]
    /\ created = {}

Emit(r, next) ==
    /\ results' = log(results, r)
    /\ out' = Append(out, logLine(r))
    /\ pc' = next

main_banner ==
    /\ pc = "main"
    /\ out' = Append(out, Line("banner", <<"ENVIRONMENT CHECK - Geekout Vegas 2026">>, 0, 0))
    /\ pc' = AfterProbe("main")
    /\ UNCHANGED <<results, env, fs, created, dirIdx, browsers, exitCode, run, prev>>

checkNodeVersion ==
    /\ pc = "checkNodeVersion"
    /\ Emit(NodeResult(env.version), AfterProbe("checkNodeVersion"))
    /\ UNCHANGED <<env, fs, created, dirIdx, browsers, exitCode, run, prev>>

checkAnthropicKey ==
    /\ pc = "checkAnthropicKey"
    /\ Emit(AnthropicResult(env.ANTHROPIC_API_KEY), AfterProbe("checkAnthropicKey"))
    /\ UNCHANGED <<env, fs, created, dirIdx, browsers, exitCode, run, prev>>

checkGeminiKey ==
    /\ pc = "checkGeminiKey"
    /\ Emit(GeminiResult(env.GEMINI_API_KEY), AfterProbe("checkGeminiKey"))
    /\ UNCHANGED <<env, fs, created, dirIdx, browsers, exitCode, run, prev>>

checkDirectories ==
    /\ pc = "checkDirectories"
    /\ dirIdx' = 1
    /\ pc' = "checkDirectories_ensureDir"
    /\ UNCHANGED <<results, env, fs, created, browsers, out, exitCode, run, prev>>

DirLoopNext(i) == IF i < Len(dirs) THEN "checkDirectories_ensureDir"
                  ELSE AfterProbe("checkDirectories")

checkDirectories_ensureDir ==
    /\ pc = "checkDirectories_ensureDir"
    /\ IF ensureDirOk(fs[dirIdx], env.cwdWritable)
       THEN /\ fs' = [fs EXCEPT ![dirIdx] = ensureDirState(@, env.cwdWritable, env.umaskW)]
            /\ created' = IF fs[dirIdx] = "missing" THEN created \cup {dirIdx} ELSE created
            /\ pc' = "checkDirectories_access"
            /\ UNCHANGED <<results, out, dirIdx>>
       ELSE /\ Emit(DirFail(dirIdx), DirLoopNext(dirIdx))
            /\ dirIdx' = IF dirIdx < Len(dirs) THEN dirIdx + 1 ELSE dirIdx
            /\ UNCHANGED <<fs, created>>
    /\ UNCHANGED <<env, browsers, exitCode, run, prev>>

checkDirectories_access ==
    /\ pc = "checkDirectories_access"
    /\ IF accessOk(fs[dirIdx])
       THEN Emit(DirPass(dirIdx), DirLoopNext(dirIdx))
       ELSE Emit(DirFail(dirIdx), DirLoopNext(dirIdx))
    /\ dirIdx' = IF dirIdx < Len(dirs) THEN dirIdx + 1 ELSE dirIdx
    /\ UNCHANGED <<env, fs, created, browsers, exitCode, run, prev>>

checkPlaywright ==
    /\ pc = "checkPlaywright"
    /\ IF env.pwFault = "launch"
       THEN /\ Emit(PlaywrightFail(ErrText("launch")), AfterProbe("checkPlaywright"))
            /\ browsers' = browsers
       ELSE /\ browsers' = browsers \cup {"checkPlaywright"}
            /\ pc' = "checkPlaywright_close"
            /\ UNCHANGED <<results, out>>
    /\ UNCHANGED <<env, fs, created, dirIdx, exitCode, run, prev>>

checkPlaywright_close ==
    /\ pc = "checkPlaywright_close"
    /\ IF env.pwFault = "close"
       THEN /\ \E stillOpen \in BOOLEAN :
                 browsers' = IF stillOpen THEN browsers ELSE browsers \ {"checkPlaywright"}
            /\ Emit(PlaywrightFail(ErrText("close")), AfterProbe("checkPlaywright"))
       ELSE /\ browsers' = browsers \ {"checkPlaywright"}
            /\ Emit(PlaywrightPass, AfterProbe("checkPlaywright"))
    /\ UNCHANGED <<env, fs, created, dirIdx, exitCode, run, prev>>

checkNetwork ==
    /\ pc = "checkNetwork"
    /\ IF env.netFault = "launch"
       THEN /\ Emit(NetworkFail(ErrText("launch")), AfterProbe("checkNetwork"))
            /\ browsers' = browsers
       ELSE /\ browsers' = browsers \cup {"checkNetwork"}
            /\ pc' = "checkNetwork_newPage"
            /\ UNCHANGED <<results, out>>
    /\ UNCHANGED <<env, fs, created, dirIdx, exitCode, run, prev>>

checkNetwork_newPage ==
    /\ pc = "checkNetwork_newPage"
    /\ IF env.netFault = "newPage"
       THEN Emit(NetworkFail(ErrText("newPage")), AfterProbe("checkNetwork"))
       ELSE pc' = "checkNetwork_goto" /\ UNCHANGED <<results, out>>
    /\ UNCHANGED <<env, fs, created, dirIdx, browsers, exitCode, run, prev>>

checkNetwork_goto ==
    /\ pc = "checkNetwork_goto"
    /\ IF env.netFault \in {"goto_timeout", "goto_dns"}
       THEN Emit(NetworkFail(ErrText(env.netFault)), AfterProbe("checkNetwork"))
       ELSE pc' = "checkNetwork_close" /\ UNCHANGED <<results, out>>
    /\ UNCHANGED <<env, fs, created, dirIdx, browsers, exitCode, run, prev>>

checkNetwork_close ==
    /\ pc = "checkNetwork_close"
    /\ IF env.netFault = "close"
       THEN /\ \E stillOpen \in BOOLEAN :
                 browsers' = IF stillOpen THEN browsers ELSE browsers \ {"checkNetwork"}
            /\ Emit(NetworkFail(ErrText("close")), AfterProbe("checkNetwork"))
       ELSE /\ browsers' = browsers \ {"checkNetwork"}
            /\ Emit(NetworkPass, AfterProbe("checkNetwork"))
    /\ UNCHANGED <<env, fs, created, dirIdx, exitCode, run, prev>>

main_aggregate ==
    /\ pc = "main_aggregate"
    /\ out' = out \o <<Line("rule", <<>>, 60, 0)>> \o Summary(results)
    /\ exitCode' = ExitStatus(results)
    /\ pc' = "exited"
    /\ UNCHANGED <<results, env, fs, created, dirIdx, browsers, run, prev>>

Rerun ==
    /\ pc = "exited"
    /\ run < MaxRuns
    /\ run' = run + 1
    /\ prev' = [statuses |-> Statuses(results), exitCode |-> exitCode]
    /\ pc' = "main"
    /\ results' = <<>>
    /\ dirIdx' = 1
    /\ browsers' = {}
    /\ out' = <<>>
    /\ exitCode' = 0
    /\ UNCHANGED <<env, fs, created>>

Next ==
    \/ main_banner
    \/ checkNodeVersion
    \/ checkAnthropicKey
    \/ checkGeminiKey
    \/ checkDirectories
    \/ checkDirectories_ensureDir
    \/ checkDirectories_access
    \/ checkPlaywright
    \/ checkPlaywright_close
    \/ checkNetwork
    \/ checkNetwork_newPage
    \/ checkNetwork_goto
    \/ checkNetwork_close
    \/ main_aggregate
    \/ Rerun

Spec == Init /\ [][Next]_vars

\* Every awaited operation eventually resolves or rejects, so a step that is
\* enabled is eventually taken.  The initial states cover every combination of
\* probe outcomes on a filesystem where each directory is missing or read-only.
EnvFair == {e \in EnvSmall : e.cwdWritable /\ ~e.umaskW}

InitFair ==
    /\ Fresh
    /\ env \in EnvFair
    /\ fs \in [1..Len(dirs) -> {"missing", "readonly"}]
    /\ created = {}

FairSpec == InitFair /\ [][Next]_vars /\ WF_vars(Next)

(***************************************************************************)
(* The three input-only probes applied to large families of inputs         *)
(***************************************************************************)
EnvProbe ==
    {Env(v, Unset, Unset, TRUE, FALSE, "none", "none") : v \in BigVersions}
    \cup {Env(MkVersion(18, 0, 0), a, Unset, TRUE, FALSE, "none", "none") : a \in BigKeys}
    \cup {Env(MkVersion(18, 0, 0), Unset, g, TRUE, FALSE, "none", "none") : g \in BigKeys}

InitProbe ==
    /\ Fresh
    /\ env \in EnvProbe
    /\ fs = [i \in 1..Len(dirs) |-> "writable"]
    /\ created = {}

NextProbe ==
    \/ main_banner
    \/ checkNodeVersion
    \/ checkAnthropicKey
    \/ checkGeminiKey

SpecProbe == InitProbe /\ [][NextProbe]_vars

(***************************************************************************)
(* The aggregation applied to arbitrary short results sequences            *)
(***************************************************************************)
StatusValues == {"pass", "warn", "fail"}

ResultSeqs ==
    UNION {[1..n -> {CheckResult("Check", st, <<>>) : st \in StatusValues}] : n \in 0..MaxResults}

InitAgg ==
    /\ pc = "main_aggregate"
    /\ results \in ResultSeqs
    /\ env = Env(MkVersion(18, 0, 0), Unset, Unset, TRUE, FALSE, "none", "none")
    /\ fs = [i \in 1..Len(dirs) |-> "writable"]
    /\ created = {}
    /\ dirIdx = 1
    /\ browsers = {}
    /\ out = <<>>
    /\ exitCode = 0
    /\ run = 1
    /\ prev = [statuses |-> <<>>, exitCode |-> 0]

NextAgg == main_aggregate

SpecAgg == InitAgg /\ [][NextAgg]_vars

(***************************************************************************)
(* Properties                                                              *)
(***************************************************************************)
HasStatus(rs, st) == \E i \in 1..Len(rs) : rs[i].status = st

CountStatus(rs, st) == Cardinality({i \in 1..Len(rs) : rs[i].status = st})

Contains(msg, chunk) == \E i \in 1..Len(msg) : msg[i] = chunk

Lines(kind) == {i \in 1..Len(out) : out[i].kind = kind}

AllErrTexts == {ErrText(f) : f \in (PwFaults \cup NetFaults) \ {"none"}}

\* C1: when the run of main has ended, the exit status is 0 if no result has
\* status fail and 1 if at least one has; warn results do not change it.
ExitStatusReflectsFailures ==
    pc = "exited" => exitCode = (IF HasStatus(results, "fail") THEN 1 ELSE 0)

ExitZeroWithWarning ==
    /\ pc = "exited"
    /\ exitCode = 0
    /\ HasStatus(results, "warn")
    /\ ~HasStatus(results, "fail")

\* Position of the control flow in main: 0 before the first probe, 1..6 inside
\* the probes in their fixed order, 7 at the aggregation, 8 after exit.
Rank(p) ==
    CASE p = "main" -> 0
      [] p = "checkNodeVersion" -> 1
      [] p = "checkAnthropicKey" -> 2
      [] p = "checkGeminiKey" -> 3
      [] p \in {"checkDirectories", "checkDirectories_ensureDir",
                "checkDirectories_access"} -> 4
      [] p \in {"checkPlaywright", "checkPlaywright_close"} -> 5
      [] p \in {"checkNetwork", "checkNetwork_newPage", "checkNetwork_goto",
                "checkNetwork_close"} -> 6
      [] p = "main_aggregate" -> 7
      [] p = "exited" -> 8

\* C2: whatever the earlier probes reported, control moves through the six
\* probes one at a time in the fixed order runtime version, primary key,
\* secondary key, directories, browser, network, never skipping one; a probe
\* is left only by the step that appends its (last) result; and every run
\* that starts reaches the aggregation, which directly follows the network
\* probe.
AllProbesRunInOrder ==
    /\ [][run' = run =>
            /\ Rank(pc') \in {Rank(pc), Rank(pc) + 1}
            /\ (Rank(pc') = Rank(pc) + 1 /\ Rank(pc) \in 1..6
                   => Len(results') = Len(results) + 1)]_vars
    /\ \A k \in 0..6 : (Rank(pc) = k) ~> (Rank(pc) = k + 1)

AggregationAfterFailures ==
    /\ pc = "main_aggregate"
    /\ \A i \in {1, 2, 3, 4, 6} : results[i].status = "fail"
    /\ results[7].name = "Network Access"

ExpectedNames ==
    <<"Node.js Version", "Anthropic API Key", "Gemini API Key",
      "Directory ./cloned-pages", "Directory ./screenshots",
      "Playwright Browser", "Network Access">>

ExpectedLen ==
    CASE Rank(pc) \in 0..3 -> IF Rank(pc) = 0 THEN 0 ELSE Rank(pc) - 1
      [] pc = "checkDirectories" -> 3
      [] pc \in {"checkDirectories_ensureDir", "checkDirectories_access"} -> 3 + (dirIdx - 1)
      [] Rank(pc) = 5 -> 5
      [] Rank(pc) = 6 -> 6
      [] Rank(pc) \in {7, 8} -> 7

\* C3: at every point of a run the results sequence holds exactly one result
\* for each probe that has finished (two for the directory probe, one per
\* path, also when the first path failed), so the aggregation sees exactly 7
\* results in probe order; within a run the sequence only ever grows by one
\* appended result and what was appended stays as it was.
OneResultPerProbe ==
    /\ [](/\ Len(results) = ExpectedLen
          /\ \A i \in 1..Len(results) : results[i].name = ExpectedNames[i])
    /\ [][run' = run =>
            \/ results' = results
            \/ /\ Len(results') = Len(results) + 1
               /\ SubSeq(results', 1, Len(results)) = results]_vars

SevenResultsFirstDirFailed ==
    /\ pc = "main_aggregate"
    /\ Len(results) = 7
    /\ results[4].status = "fail"
    /\ results[5].status = "pass"

\* C4: every browser a probe launched is closed before that probe appends its
\* result, so none is open when the network probe starts or when the
\* aggregation begins, and at most one is open at any time.
BrowserScopedPerProbe ==
    /\ Cardinality(browsers) <= 1
    /\ pc \in {"checkNetwork", "main_aggregate"} => browsers = {}

\* C5: the pass, warn and fail groups partition the results; with no fail the
\* success banner reports passed/total, the warning note is printed exactly
\* when there are warnings and carries their count, and the exit code is 0;
\* with a fail the failure banner carries the fail count, there is no success
\* banner, and the exit code is 1.
AggregationReport ==
    pc = "exited" =>
        LET f == CountStatus(results, "fail")
            w == CountStatus(results, "warn")
            p == CountStatus(results, "pass")
        IN /\ Len(filter(results, "fail")) + Len(filter(results, "warn"))
                + Len(filter(results, "pass")) = Len(results)
           /\ f = 0 =>
                /\ \E i \in Lines("all_passed") : out[i].n = p /\ out[i].m = Len(results)
                /\ (Lines("warnings") # {}) <=> (w > 0)
                /\ \A i \in Lines("warnings") : out[i].n = w
                /\ Lines("failed") = {}
                /\ exitCode = 0
           /\ f > 0 =>
                /\ Lines("failed") # {}
                /\ \A i \in Lines("failed") : out[i].n = f
                /\ Lines("all_passed") = {}
                /\ Lines("warnings") = {}
                /\ exitCode # 0

PassWarnPassReportsOneWarning ==
    /\ pc = "exited"
    /\ Statuses(results) = <<"pass", "warn", "pass">>
    /\ \E i \in Lines("warnings") : out[i].n = 1
    /\ exitCode = 0

\* C6: a fault of the external engine never leaves a probe: a fault in the
\* network probe gives a fail result with the generic connectivity message,
\* which holds no error text, and a fault in the browser availability probe
\* gives a fail result whose message holds the error text and the
\* remediation command.
ErrorsBecomeResults ==
    /\ (env.pwFault # "none" /\ Rank(pc) >= 6) =>
          /\ results[6].status = "fail"
          /\ Contains(results[6].message, ErrText(env.pwFault))
          /\ Contains(results[6].message, ". Run: npx playwright install chromium")
    /\ (env.netFault # "none" /\ Rank(pc) >= 7) =>
          /\ results[7].status = "fail"
          /\ results[7].message = <<"Cannot reach websites. Check your internet connection.">>
          /\ \A e \in AllErrTexts : ~Contains(results[7].message, e)

BothBrowserProbesFaulted ==
    /\ pc = "main_aggregate"
    /\ env.pwFault = "close"
    /\ env.netFault = "goto_timeout"
    /\ results[6].status = "fail"
    /\ results[7].status = "fail"

TrimmedLen(v) == Len(trim(v.val))

\* C7: the primary key probe fails on an unset, empty or whitespace-only
\* value, warns on a non-empty trimmed value shorter than 50 or lacking the
\* prefix, and passes exactly when the trimmed value has the prefix and
\* length at least 50.
PrimaryKeyStatus ==
    Len(results) >= 2 =>
        LET v == env.ANTHROPIC_API_KEY
            t == trim(v.val)
            st == results[2].status
        IN /\ (~v.set \/ t = <<>>) => st = "fail"
           /\ (v.set /\ t # <<>> /\ Len(t) < 50) => st = "warn"
           /\ (v.set /\ Len(t) >= 50 /\ ~startsWith(t, AnthropicPrefix)) => st = "warn"
           /\ (v.set /\ Len(t) >= 50 /\ startsWith(t, AnthropicPrefix)) => st = "pass"
           /\ st = "pass" <=> (v.set /\ startsWith(t, AnthropicPrefix) /\ Len(t) >= 50)

PrimaryKeyPaddedLength50Passes ==
    /\ Len(results) >= 2
    /\ env.ANTHROPIC_API_KEY.set
    /\ Len(env.ANTHROPIC_API_KEY.val) > 50
    /\ TrimmedLen(env.ANTHROPIC_API_KEY) = 50
    /\ results[2].status = "pass"

\* C8: the secondary key probe fails on an unset, empty or whitespace-only
\* value, warns on a non-empty trimmed value shorter than 30 and passes on a
\* trimmed length of 30 or more; the status is a function of the trimmed
\* length alone.
SecondaryKeyStatus ==
    Len(results) >= 3 =>
        LET v == env.GEMINI_API_KEY
            st == results[3].status
        IN st = (IF ~v.set \/ TrimmedLen(v) = 0 THEN "fail"
                 ELSE IF TrimmedLen(v) < 30 THEN "warn" ELSE "pass")

SecondaryKeyLength40Passes ==
    /\ Len(results) >= 3
    /\ env.GEMINI_API_KEY.set
    /\ Len(env.GEMINI_API_KEY.val) > 40
    /\ TrimmedLen(env.GEMINI_API_KEY) = 40
    /\ startsWith(trim(env.GEMINI_API_KEY.val), AnthropicPrefix)
    /\ results[3].status = "pass"

\* C9: a later run in the same environment, on the filesystem as the earlier
\* run left it, ends with the same sequence of statuses and the same exit
\* code as the run before it.
RerunSameStatuses ==
    (run > 1 /\ pc = "exited") =>
        /\ Statuses(results) = prev.statuses
        /\ exitCode = prev.exitCode

SecondRunAfterCreatingDirs ==
    /\ run = 2
    /\ pc = "exited"
    /\ created = {1, 2}
    /\ results[4].status = "pass"
    /\ results[5].status = "pass"

\* C10: the major version is the number written between the leading marker
\* and the first separator; the probe fails below 18, passes at 18 and above,
\* and never warns.
RuntimeVersionStatus ==
    Len(results) >= 1 =>
        /\ results[1].status # "warn"
        /\ \A M \in 0..MaxMajor, m \in {0, 9, 18} :
              env.version = MkVersion(M, m, 0) =>
                  /\ MajorOf(env.version) = M
                  /\ results[1].status = (IF M < 18 THEN "fail" ELSE "pass")

Version18Passes ==
    /\ Len(results) >= 1
    /\ env.version = MkVersion(18, 0, 0)
    /\ results[1].status = "pass"

====
